---- MODULE Spec2Model ----
(***************************************************************************)
(* State-machine model of the account service of app/services/             *)
(* user_service.py (UserService) and of the account entity of              *)
(* app/models/user_model.py (User).                                        *)
(*                                                                         *)
(* The relational store is the variable db.  Every caller owns a request-  *)
(* scoped session; a handler is cut into steps at the awaits that reach    *)
(* the store (a read, the commit, the email dispatch), so that handlers of *)
(* different callers can interleave exactly where the event loop lets      *)
(* them.  Spec runs one handler at a time, SpecRace runs registrations     *)
(* concurrently, SpecLogin runs logins concurrently, SpecAdmin adds the     *)
(* entity's lock_account and unlock_account, SpecNick runs registrations   *)
(* against a fair nickname generator, SpecValidators runs the entity       *)
(* validators on texts of every make-up.                                   *)
(***************************************************************************)
EXTENDS Integers, Sequences, FiniteSets, TLC

\* ---------------------------------------------------------------- bounds
MaxIds == 2              \* identifiers ever handed out (uuid4 values are never reused)
MaxClock == 1            \* readings of datetime.now() that are told apart
MaxLoginAttempts == 2    \* settings.max_login_attempts

\* ------------------------------------------------------ program constants
MinPasswordLen == 8
MinNicknameLen == 3
MaxNicknameLen == 50

\* ---------------------------------------------------------------- inputs
Procs == {1, 2}
SeqProcs == {1}
Ids == 1..MaxIds
NoId == 0
Emails == {"e1", "e2"}
BadEmail == "not-an-email"
EmailInputs == Emails \cup {BadEmail}
Passwords == {"pwA", "pwB"}
WeakPassword == "pwShort"
PasswordInputs == Passwords \cup {WeakPassword}
Nicknames == {"nick1", "nick2"}
BadNickname == "nick_3"
NicknameInputs == Nicknames \cup {BadNickname}
Salts == {"s1", "s2"}
Times == 1..MaxClock
Unset == "unset"

\* Characters are modelled by their class: "U" an uppercase letter, "l" a
\* lowercase letter, "d" a digit, "s" a character of "!@#$%^&*()_+-=",
\* "a" a letter or digit outside ASCII that has no case and is no decimal
\* digit to isdigit() (a CJK ideograph), "o" any other character.
PasswordText(p) ==
    CASE p = "pwA" -> <<"U", "l", "l", "l", "l", "l", "d", "s">>
      [] p = "pwB" -> <<"l", "l", "U", "d", "d", "s", "l", "l", "l">>
      [] OTHER     -> <<"U", "l", "d", "s">>

NicknameText(n) ==
    CASE n = "nick1" -> <<"l", "l", "l", "l", "d">>
      [] n = "nick2" -> <<"U", "l", "l", "l", "d">>
      [] OTHER       -> <<"l", "l", "l", "l", "s", "d">>

\* ------------------------------------------------------------ user_model
\* any(char.isupper() for char in value) and its like: a character of class c.
AnyChar(value, c) == \E i \in 1..Len(value) : value[i] = c
\* str.isalnum(): not empty and every character a letter or a digit of Unicode.
isalnum(value) ==
    Len(value) > 0 /\ \A i \in 1..Len(value) : value[i] \in {"U", "l", "d", "a"}

\* User.validate_nickname: "ok" when the value is returned, else the error raised.
validate_nickname(value) ==
    IF ~isalnum(value) THEN "alphanumeric"
    ELSE IF Len(value) < MinNicknameLen \/ Len(value) > MaxNicknameLen THEN "length"
    ELSE "ok"

\* User.validate_password, the validator of the attribute hashed_password.
validate_password(value) ==
    IF Len(value) < MinPasswordLen THEN "length"
    ELSE IF ~AnyChar(value, "U") THEN "uppercase"
    ELSE IF ~AnyChar(value, "l") THEN "lowercase"
    ELSE IF ~AnyChar(value, "d") THEN "digit"
    ELSE IF ~AnyChar(value, "s") THEN "special"
    ELSE "ok"

\* ------------------------------------------------------ credential hasher
\* hash_password draws a salt; the text of the hash depends on it.
hash_password(p, salt) == [plain |-> p, salt |-> salt]
verify_password(p, h) == h.plain = p
\* The column holding the text p itself: no output of hash_password.
Raw(p) == [plain |-> p, salt |-> "none"]
HashesOf(p) == {hash_password(p, s) : s \in Salts}
HashText(h) ==
    IF h.salt = "s1"
    THEN <<"s", "d", "l", "s", "d", "d", "s", "U", "l", "d", "o", "U">>
    ELSE <<"s", "d", "l", "s", "d", "d", "s", "l", "l", "d", "o", "d">>

\* ------------------------------------------------------------------ state
VARIABLES
    db,        \* the users table: identifier -> row, for the identifiers stored
    nextId,    \* the next fresh identifier (uuid4)
    pc,        \* caller -> position in its handler
    call,      \* caller -> the operation it runs and its arguments
    pend,      \* caller -> the unit of work of its session (not yet committed)
    ret,       \* caller -> what its handler returned
    pre,       \* caller -> the table when its handler was entered (history)
    flag,      \* caller -> what happened to its handler (history)
    gen,       \* the nicknames generate_nickname() can produce
    probe      \* the last run of an entity validator: its input and its verdict

vars == <<db, nextId, pc, call, pend, ret, pre, flag, gen, probe>>

NoCall == [op |-> "none", email |-> Unset, password |-> Unset, nickname |-> Unset,
           id |-> NoId, now |-> 0]
NoPend == [kind |-> "none", id |-> NoId, vals |-> <<>>, result |-> "none"]
Ret(kind, id) == [kind |-> kind, id |-> id]
NoRet == Ret("pending", NoId)
\* fault: a collaborator failed; invalid: a validator rejected a value;
\* conflict: the store rejected the statement; wrote: a statement was committed;
\* mail: the accounts a verification email was dispatched for, in order.
NoFlag == [fault |-> FALSE, invalid |-> FALSE, conflict |-> FALSE, wrote |-> FALSE,
           mail |-> <<>>]
EmptyTable == <<>>
NoProbe == [validator |-> "none", candidate |-> <<>>, value |-> <<>>, result |-> "none"]

\* A row as the entity's column defaults leave it (User, columns and defaults).
NewUser(email, hashed, nickname, token) ==
    [email |-> email, nickname |-> nickname, hashed_password |-> hashed,
     email_verified |-> FALSE, is_locked |-> FALSE, failed_login_attempts |-> 0,
     last_login_at |-> 0, verification_token |-> token]

generate_verification_token(id) == <<"token", id>>

\* ------------------------------------------------------------- the store
Matching(d, field, value) == {i \in DOMAIN d : d[i][field] = value}
First(S) == IF S = {} THEN NoId ELSE CHOOSE i \in S : \A j \in S : i <= j

\* Mutant: the lookup by nickname never finds an account.
get_by_nickname_Never(d, nickname) == NoId

\* UserService._fetch_user with the three filters the service uses.
get_by_id(d, id) == IF id \in DOMAIN d THEN id ELSE NoId
get_by_email(d, email) == First(Matching(d, "email", email))
get_by_nickname(d, nickname) == First(Matching(d, "nickname", nickname))

\* Mutants: one of the two unique constraints is missing.
UniqueOk_EmailOnly(d, id, row) ==
    \A j \in DOMAIN d \ {id} : d[j].email # row.email

UniqueOk_NicknameOnly(d, id, row) ==
    \A j \in DOMAIN d \ {id} : d[j].nickname # row.nickname

\* The unique constraints of the columns nickname and email.
UniqueOk(d, id, row) ==
    \A j \in DOMAIN d \ {id} :
        d[j].email # row.email /\ d[j].nickname # row.nickname

\* Mutant: the DELETE is never sent.
Remove_Nothing(d, id) == d

Put(d, id, row) == [i \in DOMAIN d \cup {id} |-> IF i = id THEN row ELSE d[i]]
Remove(d, id) == [i \in DOMAIN d \ {id} |-> d[i]]
Merge(row, vals) == [f \in DOMAIN row |-> IF f \in DOMAIN vals THEN vals[f] ELSE row[f]]

\* The attributes of a loaded object whose assigned value differs from the
\* loaded one: the unit of work writes these and no others.
Dirty(row, vals) ==
    LET changed == {f \in DOMAIN vals : vals[f] # row[f]}
    IN  [f \in changed |-> vals[f]]

\* The statement a flush of the session's unit of work w sends, applied to the
\* table d: [ok, db], ok = FALSE when the store rejects it.
Flush(d, w) ==
    CASE w.kind = "insert" ->
            IF w.id \notin DOMAIN d /\ UniqueOk(d, w.id, w.vals)
            THEN [ok |-> TRUE, db |-> Put(d, w.id, w.vals)]
            ELSE [ok |-> FALSE, db |-> d]
      [] w.kind = "update" ->
            IF DOMAIN w.vals = {} THEN [ok |-> TRUE, db |-> d]
            ELSE IF w.id \in DOMAIN d /\ UniqueOk(d, w.id, Merge(d[w.id], w.vals))
            THEN [ok |-> TRUE, db |-> Put(d, w.id, Merge(d[w.id], w.vals))]
            ELSE [ok |-> FALSE, db |-> d]
      [] w.kind = "delete" -> [ok |-> TRUE, db |-> Remove(d, w.id)]
      [] OTHER -> [ok |-> TRUE, db |-> d]

\* Mutant: the statement of the failed transaction stays written.
RolledBack_Partial(d, w) == Flush(d, w).db

\* The table after the commit of the unit of work w failed: the transaction is
\* rolled back (by _execute_query, else by the session when its flush fails),
\* none of its statements stays.
RolledBack(d, w) == d

Writes(w) == w.kind \in {"insert", "delete"} \/ (w.kind = "update" /\ DOMAIN w.vals # {})

\* ------------------------------------------------------------ bookkeeping
\* The handler of caller p returns r.
Finish(p, c, r, fl) ==
    /\ pc' = [pc EXCEPT ![p] = "done"]
    /\ call' = [call EXCEPT ![p] = c]
    /\ pend' = [pend EXCEPT ![p] = NoPend]
    /\ ret' = [ret EXCEPT ![p] = r]
    /\ flag' = [flag EXCEPT ![p] = fl]
    /\ UNCHANGED <<gen, probe>>

\* The handler of caller p goes on to position l with the unit of work w.
Goto(p, l, c, w, fl) ==
    /\ pc' = [pc EXCEPT ![p] = l]
    /\ call' = [call EXCEPT ![p] = c]
    /\ pend' = [pend EXCEPT ![p] = w]
    /\ flag' = [flag EXCEPT ![p] = fl]
    /\ ret' = ret
    /\ UNCHANGED <<gen, probe>>

Enter(p) == pc[p] = "idle" /\ pre' = [pre EXCEPT ![p] = db]

Init ==
    /\ db = EmptyTable
    /\ nextId = 1
    /\ pc = [p \in Procs |-> "idle"]
    /\ call = [p \in Procs |-> NoCall]
    /\ pend = [p \in Procs |-> NoPend]
    /\ ret = [p \in Procs |-> NoRet]
    /\ pre = [p \in Procs |-> EmptyTable]
    /\ flag = [p \in Procs |-> NoFlag]
    /\ gen = NicknameInputs
    /\ probe = NoProbe

\* ------------------------------------------------------------ login_user
\* Mutant: the counter is left as it is.
LoginSuccessVals_NoReset(now) == [last_login_at |-> now]

\* What a successful login assigns to the loaded account.
LoginSuccessVals(now) == [failed_login_attempts |-> 0, last_login_at |-> now]

\* Mutant: the threshold is compared with > instead of >=.
LoginFailureVals_LateLock(user) ==
    LET n == user.failed_login_attempts + 1
    IN  IF n > MaxLoginAttempts
        THEN [failed_login_attempts |-> n, is_locked |-> TRUE]
        ELSE [failed_login_attempts |-> n]

\* What a login with a wrong password assigns to the loaded account.
LoginFailureVals(user) ==
    LET n == user.failed_login_attempts + 1
    IN  IF n >= MaxLoginAttempts
        THEN [failed_login_attempts |-> n, is_locked |-> TRUE]
        ELSE [failed_login_attempts |-> n]

\* Mutant: the lock gate is missing.
LoginOutcome_NoLockGate(user, password) ==
    IF ~user.email_verified THEN "unverified"
    ELSE IF verify_password(password, user.hashed_password) THEN "success"
    ELSE "failure"

\* Mutant: the verification gate is missing.
LoginOutcome_NoVerifiedGate(user, password) ==
    IF user.is_locked THEN "locked"
    ELSE IF verify_password(password, user.hashed_password) THEN "success"
    ELSE "failure"

\* The gates of login_user in their order: the outcome for the loaded account.
LoginOutcome(user, password) ==
    IF ~user.email_verified THEN "unverified"
    ELSE IF user.is_locked THEN "locked"
    ELSE IF verify_password(password, user.hashed_password) THEN "success"
    ELSE "failure"

\* login_user up to its commit: the fetch by email, the gates, the assignments.
LoginFetch(p, email, password, now) ==
    LET c == [NoCall EXCEPT !.op = "login", !.email = email, !.password = password,
                            !.now = now]
        u == get_by_email(db, email)
    IN  /\ Enter(p)
        /\ UNCHANGED <<db, nextId>>
        /\ IF u = NoId
           THEN Finish(p, c, Ret("None", NoId), NoFlag)
           ELSE LET o == LoginOutcome(db[u], password)
                IN  CASE o = "success" ->
                           Goto(p, "login_commit", c,
                                [kind |-> "update", id |-> u,
                                 vals |-> Dirty(db[u], LoginSuccessVals(now)),
                                 result |-> "user"], NoFlag)
                      [] o = "failure" ->
                           Goto(p, "login_commit", c,
                                [kind |-> "update", id |-> u,
                                 vals |-> Dirty(db[u], LoginFailureVals(db[u])),
                                 result |-> "None"], NoFlag)
                      [] OTHER -> Finish(p, c, Ret("None", NoId), NoFlag)

\* session.add(user); await session.commit() of login_user.  The commit is not
\* guarded: a failure of the store leaves the handler as an exception.
LoginCommit(p) ==
    /\ pc[p] = "login_commit"
    /\ UNCHANGED <<nextId, pre>>
    /\ \E up \in BOOLEAN :
         LET f == Flush(db, pend[p])
         IN  IF up /\ f.ok
             THEN /\ db' = f.db
                  /\ Finish(p, call[p],
                            IF pend[p].result = "user" THEN Ret("user", pend[p].id)
                            ELSE Ret("None", NoId),
                            [flag[p] EXCEPT !.wrote = Writes(pend[p])])
             ELSE /\ db' = RolledBack(db, pend[p])
                  /\ Finish(p, call[p], Ret("raise", NoId),
                            [flag[p] EXCEPT !.fault = ~up, !.conflict = up])

\* The caller takes the result; its session ends with the request.
Return(p) ==
    /\ pc[p] = "done"
    /\ pc' = [pc EXCEPT ![p] = "idle"]
    /\ call' = [call EXCEPT ![p] = NoCall]
    /\ pend' = [pend EXCEPT ![p] = NoPend]
    /\ ret' = [ret EXCEPT ![p] = NoRet]
    /\ pre' = [pre EXCEPT ![p] = EmptyTable]
    /\ flag' = [flag EXCEPT ![p] = NoFlag]
    /\ UNCHANGED <<db, nextId, gen, probe>>

\* ------------------------------------------------ create / register_user
\* UserCreate(**user_data): the schema accepts a well-formed email and a
\* password that meets the password policy.
UserCreateValid(email, password) ==
    email \in Emails /\ validate_password(PasswordText(password)) = "ok"

\* User(**validated_data): the entity's validators run on the attributes set.
UserInitValid(vals) ==
    /\ validate_nickname(NicknameText(vals.nickname)) = "ok"
    /\ validate_password(HashText(vals.hashed_password)) = "ok"

\* Mutant: the payload is used without being validated.
CreateRejects_Never(email, password) == FALSE

\* try: UserCreate(**user_data) / except ValidationError: return None.
CreateRejects(email, password) == ~UserCreateValid(email, password)

Creating == {q \in Procs : pc[q] \in {"create_nick", "create_commit"}}

\* create up to the nickname loop: validation, the email check, the hash and
\* the first candidate nickname.
CreateFetch(p, email, password, salt, nickname) ==
    LET c == [NoCall EXCEPT !.op = "create", !.email = email, !.password = password]
    IN  /\ Enter(p)
        /\ nextId + Cardinality(Creating) <= MaxIds
        /\ UNCHANGED <<db, nextId>>
        /\ IF CreateRejects(email, password)
           THEN Finish(p, c, Ret("None", NoId), [NoFlag EXCEPT !.invalid = TRUE])
           ELSE IF get_by_email(db, email) # NoId
           THEN Finish(p, c, Ret("None", NoId), NoFlag)
           ELSE Goto(p, "create_nick", c,
                     [kind |-> "new", id |-> NoId,
                      vals |-> NewUser(email, hash_password(password, salt), nickname, Unset),
                      result |-> "user"], NoFlag)

\* One test of the nickname loop: a candidate in use is replaced by the next
\* one generated; a free one is assigned, the entity is built and added.
CreateNick(p, next) ==
    /\ pc[p] = "create_nick"
    /\ UNCHANGED <<db, nextId, pre>>
    /\ IF get_by_nickname(db, pend[p].vals.nickname) # NoId
       THEN Goto(p, "create_nick", call[p],
                 [pend[p] EXCEPT !.vals.nickname = next], flag[p])
       ELSE IF ~UserInitValid(pend[p].vals)
       THEN Finish(p, call[p], Ret("None", NoId), [flag[p] EXCEPT !.invalid = TRUE])
       ELSE Goto(p, "create_commit", call[p], [pend[p] EXCEPT !.kind = "insert"], flag[p])

\* session.add(new_user); await session.commit() of create.
CreateCommit(p) ==
    /\ pc[p] = "create_commit"
    /\ UNCHANGED pre
    /\ \E up \in BOOLEAN :
         LET w == [pend[p] EXCEPT !.id = nextId,
                                  !.vals.verification_token = generate_verification_token(nextId)]
             f == Flush(db, w)
         IN  IF up /\ f.ok
             THEN /\ db' = f.db
                  /\ nextId' = nextId + 1
                  /\ Goto(p, "create_email", call[p], w, [flag[p] EXCEPT !.wrote = TRUE])
             ELSE /\ db' = RolledBack(db, w)
                  /\ nextId' = nextId
                  /\ Finish(p, call[p], Ret("None", NoId),
                            [flag[p] EXCEPT !.fault = ~up, !.conflict = up])

\* Mutant: the account is returned without the email being dispatched.
CreateEmail_Skip(p) ==
    /\ pc[p] = "create_email"
    /\ UNCHANGED <<db, nextId, pre>>
    /\ Finish(p, call[p], Ret("user", pend[p].id), flag[p])

\* await email_service.send_verification_email(new_user), then the return.
CreateEmail(p) ==
    /\ pc[p] = "create_email"
    /\ UNCHANGED <<db, nextId, pre>>
    /\ \E sent \in BOOLEAN :
         IF sent
         THEN Finish(p, call[p], Ret("user", pend[p].id),
                     [flag[p] EXCEPT !.mail = Append(@, pend[p].id)])
         ELSE Finish(p, call[p], Ret("None", NoId), [flag[p] EXCEPT !.fault = TRUE])

\* ---------------------------------------------------------------- delete
DeleteFetch(p, id) ==
    LET c == [NoCall EXCEPT !.op = "delete", !.id = id]
    IN  /\ Enter(p)
        /\ UNCHANGED <<db, nextId>>
        /\ IF get_by_id(db, id) = NoId
           THEN Finish(p, c, Ret("False", NoId), NoFlag)
           ELSE Goto(p, "delete_commit", c,
                     [kind |-> "delete", id |-> id, vals |-> <<>>, result |-> "True"],
                     NoFlag)

DeleteCommit(p) ==
    /\ pc[p] = "delete_commit"
    /\ UNCHANGED <<nextId, pre>>
    /\ \E up \in BOOLEAN :
         LET f == Flush(db, pend[p])
         IN  IF up /\ f.ok
             THEN /\ db' = f.db
                  /\ Finish(p, call[p], Ret("True", NoId), [flag[p] EXCEPT !.wrote = TRUE])
             ELSE /\ db' = RolledBack(db, pend[p])
                  /\ Finish(p, call[p], Ret("False", NoId),
                            [flag[p] EXCEPT !.fault = ~up, !.conflict = up])

\* -------------------------------------------------------- reset_password
\* Mutant: the reset unlocks but leaves the counter as it is.
ResetVals_KeepsCount(hashed) == [hashed_password |-> hashed, is_locked |-> FALSE]

\* Mutant: the reset locks the account instead of unlocking it.
ResetVals_Locks(hashed) ==
    [hashed_password |-> hashed, failed_login_attempts |-> 0, is_locked |-> TRUE]

\* What reset_password assigns to the loaded account.
ResetVals(hashed) ==
    [hashed_password |-> hashed, failed_login_attempts |-> 0, is_locked |-> FALSE]

ResetFetch(p, id, password, salt) ==
    LET c == [NoCall EXCEPT !.op = "reset", !.id = id, !.password = password]
        hashed == hash_password(password, salt)
    IN  /\ Enter(p)
        /\ UNCHANGED <<db, nextId>>
        /\ IF get_by_id(db, id) = NoId
           THEN Finish(p, c, Ret("False", NoId), NoFlag)
           ELSE IF validate_password(HashText(hashed)) # "ok"
           THEN Finish(p, c, Ret("False", NoId), [NoFlag EXCEPT !.invalid = TRUE])
           ELSE Goto(p, "reset_commit", c,
                     [kind |-> "update", id |-> id,
                      vals |-> Dirty(db[id], ResetVals(hashed)), result |-> "True"],
                     NoFlag)

ResetCommit(p) ==
    /\ pc[p] = "reset_commit"
    /\ UNCHANGED <<nextId, pre>>
    /\ \E up \in BOOLEAN :
         LET f == Flush(db, pend[p])
         IN  IF up /\ f.ok
             THEN /\ db' = f.db
                  /\ Finish(p, call[p], Ret("True", NoId),
                            [flag[p] EXCEPT !.wrote = Writes(pend[p])])
             ELSE /\ db' = RolledBack(db, pend[p])
                  /\ Finish(p, call[p], Ret("False", NoId),
                            [flag[p] EXCEPT !.fault = ~up, !.conflict = up])

\* ---------------------------------------------------------------- update
\* UserUpdate(**update_data): at least one field, each field well-formed.
UserUpdateValid(email, nickname, password) ==
    /\ ~(email = Unset /\ nickname = Unset /\ password = Unset)
    /\ email \in Emails \cup {Unset}
    /\ nickname = Unset \/ validate_nickname(NicknameText(nickname)) = "ok"
    /\ password = Unset \/ validate_password(PasswordText(password)) = "ok"

\* Mutant: the payload is used without being validated.
UpdateRejects_Never(email, nickname, password) == FALSE

\* try: UserUpdate(**update_data) / except ValidationError: return None.
UpdateRejects(email, nickname, password) == ~UserUpdateValid(email, nickname, password)

\* Mutant: the payload is dumped without exclude_unset, every field is written.
UpdateVals_AllFields(email, nickname, password, salt) ==
    [email |-> email, nickname |-> nickname,
     hashed_password |-> hash_password(password, salt)]

\* Mutant: the password of the payload is written as it came, not hashed.
UpdateVals_Unhashed(email, nickname, password, salt) ==
    LET fields == (IF email = Unset THEN {} ELSE {"email"})
                  \cup (IF nickname = Unset THEN {} ELSE {"nickname"})
                  \cup (IF password = Unset THEN {} ELSE {"hashed_password"})
    IN  [f \in fields |->
            CASE f = "email" -> email
              [] f = "nickname" -> nickname
              [] OTHER -> Raw(password)]

\* The values of the UPDATE statement: the fields set, the password hashed.
UpdateVals(email, nickname, password, salt) ==
    LET fields == (IF email = Unset THEN {} ELSE {"email"})
                  \cup (IF nickname = Unset THEN {} ELSE {"nickname"})
                  \cup (IF password = Unset THEN {} ELSE {"hashed_password"})
    IN  [f \in fields |->
            CASE f = "email" -> email
              [] f = "nickname" -> nickname
              [] OTHER -> hash_password(password, salt)]

\* update up to and with the UPDATE ... WHERE id = user_id sent through
\* _execute_query, which commits it or rolls it back.
UpdateExec(p, id, email, nickname, password, salt) ==
    LET c == [NoCall EXCEPT !.op = "update", !.id = id, !.email = email,
                            !.nickname = nickname, !.password = password]
        w == [kind |-> "update", id |-> id,
              vals |-> UpdateVals(email, nickname, password, salt), result |-> "user"]
    IN  /\ Enter(p)
        /\ UNCHANGED nextId
        /\ IF UpdateRejects(email, nickname, password)
           THEN /\ db' = db
                /\ Finish(p, c, Ret("None", NoId), [NoFlag EXCEPT !.invalid = TRUE])
           ELSE \E up \in BOOLEAN :
                  IF ~up
                  THEN /\ db' = RolledBack(db, w)
                       /\ Finish(p, c, Ret("None", NoId), [NoFlag EXCEPT !.fault = TRUE])
                  ELSE IF id \notin DOMAIN db
                  THEN /\ db' = db
                       /\ Goto(p, "update_fetch", c, NoPend, NoFlag)
                  ELSE LET f == Flush(db, w)
                       IN  IF f.ok
                           THEN /\ db' = f.db
                                /\ Goto(p, "update_fetch", c, NoPend,
                                        [NoFlag EXCEPT !.wrote = TRUE])
                           ELSE /\ db' = db
                                /\ Finish(p, c, Ret("None", NoId),
                                          [NoFlag EXCEPT !.conflict = TRUE])

\* updated_user = await cls.get_by_id(session, user_id), then the return.
UpdateFetch(p) ==
    /\ pc[p] = "update_fetch"
    /\ UNCHANGED <<db, nextId, pre>>
    /\ IF get_by_id(db, call[p].id) # NoId
       THEN Finish(p, call[p], Ret("user", call[p].id), flag[p])
       ELSE Finish(p, call[p], Ret("None", NoId), flag[p])

\* ----------------------------------------------------- entity mutators
\* User.verify_email on the stored account, saved by its caller.
VerifyEmail(id) ==
    /\ id \in DOMAIN db
    /\ ~db[id].email_verified
    /\ \A q \in Procs : pc[q] = "idle"
    /\ db' = Put(db, id, [db[id] EXCEPT !.email_verified = TRUE])
    /\ UNCHANGED <<nextId, pc, call, pend, ret, pre, flag, gen, probe>>

\* User.lock_account on the stored account, saved by its caller.
LockAccount(id) ==
    /\ id \in DOMAIN db
    /\ ~db[id].is_locked
    /\ \A q \in Procs : pc[q] = "idle"
    /\ db' = Put(db, id, [db[id] EXCEPT !.is_locked = TRUE])
    /\ UNCHANGED <<nextId, pc, call, pend, ret, pre, flag, gen, probe>>

\* User.unlock_account on the stored account, saved by its caller.  The counter
\* stays as it is, so a later wrong password locks again at once; the model
\* follows the counter up to max_login_attempts + 1.
UnlockAccount(id) ==
    /\ id \in DOMAIN db
    /\ db[id].is_locked
    /\ db[id].failed_login_attempts <= MaxLoginAttempts
    /\ \A q \in Procs : pc[q] = "idle"
    /\ db' = Put(db, id, [db[id] EXCEPT !.is_locked = FALSE])
    /\ UNCHANGED <<nextId, pc, call, pend, ret, pre, flag, gen, probe>>

\* ------------------------------------------------------- specifications
\* The draws of the hasher tried in update.
UpdateSalts == {"s1"}

\* The update payloads tried: no field, every single field with every value,
\* and two fields together.
UpdateInputs ==
    {d \in [email : EmailInputs \cup {Unset}, nickname : NicknameInputs \cup {Unset},
            password : PasswordInputs \cup {Unset}] :
        \/ Cardinality({f \in {"email", "nickname", "password"} : d[f] # Unset}) <= 1
        \/ d = [email |-> "e2", nickname |-> "nick2", password |-> Unset]
        \/ d = [email |-> "e1", nickname |-> Unset, password |-> "pwB"]}

Step(p) ==
    \/ \E e \in Emails, pw \in Passwords, t \in Times : LoginFetch(p, e, pw, t)
    \/ LoginCommit(p)
    \/ \E e \in EmailInputs, pw \in PasswordInputs, s \in Salts, n \in gen :
          CreateFetch(p, e, pw, s, n)
    \/ \E n \in gen : CreateNick(p, n)
    \/ CreateCommit(p)
    \/ CreateEmail(p)
    \/ \E i \in Ids : DeleteFetch(p, i)
    \/ DeleteCommit(p)
    \/ \E i \in Ids, pw \in Passwords, s \in Salts : ResetFetch(p, i, pw, s)
    \/ ResetCommit(p)
    \/ \E i \in Ids, d \in UpdateInputs, s \in UpdateSalts :
          UpdateExec(p, i, d.email, d.nickname, d.password, s)
    \/ UpdateFetch(p)
    \/ Return(p)

\* One handler at a time.
Next ==
    \/ \E p \in SeqProcs : Step(p)
    \/ \E i \in Ids : VerifyEmail(i)

Spec == Init /\ [][Next]_vars

\* One handler at a time, and the entity's lock and unlock between handlers.
\* Every operation of the service, on the payloads that pass validation.
StepAdmin(p) ==
    \/ \E e \in Emails, pw \in Passwords : LoginFetch(p, e, pw, 1)
    \/ LoginCommit(p)
    \/ \E e \in Emails, n \in Nicknames : CreateFetch(p, e, "pwA", "s1", n)
    \/ \E n \in Nicknames : CreateNick(p, n)
    \/ CreateCommit(p)
    \/ CreateEmail(p)
    \/ \E i \in Ids : DeleteFetch(p, i)
    \/ DeleteCommit(p)
    \/ \E i \in Ids : ResetFetch(p, i, "pwB", "s1")
    \/ ResetCommit(p)
    \/ \E i \in Ids, n \in Nicknames : UpdateExec(p, i, Unset, n, Unset, "s1")
    \/ UpdateFetch(p)
    \/ Return(p)

NextAdmin ==
    \/ \E p \in SeqProcs : StepAdmin(p)
    \/ \E i \in Ids : VerifyEmail(i)
    \/ \E i \in Ids : LockAccount(i)
    \/ \E i \in Ids : UnlockAccount(i)

SpecAdmin == Init /\ [][NextAdmin]_vars

\* Registrations of different callers, interleaved at every await; each
\* caller registers once and keeps its result.
NextRace ==
    \E p \in Procs :
        \/ \E e \in EmailInputs, pw \in PasswordInputs, s \in Salts, n \in gen :
              CreateFetch(p, e, pw, s, n)
        \/ \E n \in gen : CreateNick(p, n)
        \/ CreateCommit(p)
        \/ CreateEmail(p)

SpecRace == Init /\ [][NextRace]_vars

\* Logins of different callers, each on its own session, interleaved at every
\* await, on accounts registered and verified before; each caller logs in once
\* and keeps its result.
ReturnCreate(p) == call[p].op = "create" /\ Return(p)

NextLogin ==
    \/ \E p \in Procs :
          \/ \E e \in Emails, n \in gen : CreateFetch(p, e, "pwA", "s1", n)
          \/ \E n \in gen : CreateNick(p, n)
          \/ CreateCommit(p)
          \/ CreateEmail(p)
          \/ ReturnCreate(p)
          \/ \E e \in Emails, pw \in Passwords, t \in Times : LoginFetch(p, e, pw, t)
          \/ LoginCommit(p)
    \/ \E i \in Ids : VerifyEmail(i)

SpecLogin == Init /\ [][NextLogin]_vars

\* Registrations one at a time with a generator that produces the nicknames
\* of gen, any non-empty set of nicknames, and is fair: a nickname it can
\* produce is not passed over for ever while the loop keeps asking.
InitNick ==
    /\ db = EmptyTable
    /\ nextId = 1
    /\ pc = [p \in Procs |-> "idle"]
    /\ call = [p \in Procs |-> NoCall]
    /\ pend = [p \in Procs |-> NoPend]
    /\ ret = [p \in Procs |-> NoRet]
    /\ pre = [p \in Procs |-> EmptyTable]
    /\ flag = [p \in Procs |-> NoFlag]
    /\ gen \in (SUBSET Nicknames) \ {{}}
    /\ probe = NoProbe

\* generate_nickname() returns n to the loop of caller p.
GenYields(p, n) == n \in gen /\ CreateNick(p, n)

NextNick ==
    \E p \in SeqProcs :
        \/ \E e \in Emails, pw \in Passwords, s \in Salts, n \in gen :
              CreateFetch(p, e, pw, s, n)
        \/ \E n \in Nicknames : GenYields(p, n)
        \/ CreateCommit(p)
        \/ CreateEmail(p)
        \/ Return(p)

SpecNick ==
    /\ InitNick
    /\ [][NextNick]_vars
    /\ \A p \in SeqProcs, n \in Nicknames : WF_vars(GenYields(p, n))

\* The entity validators on texts of every make-up.  A text is given by the
\* classes of its characters and its length: the classes repeat in the order of
\* ClassOrder.
ClassOrder == <<"U", "l", "d", "s", "a", "o">>
Classes == {ClassOrder[i] : i \in 1..Len(ClassOrder)}
Text(S, n) ==
    LET sel == SelectSeq(ClassOrder, LAMBDA c : c \in S)
    IN  [i \in 1..n |-> sel[((i - 1) % Len(sel)) + 1]]
TextsOf(lens) == {Text(S, n) : S \in (SUBSET Classes) \ {{}}, n \in lens}
PasswordTexts == TextsOf({0, MinPasswordLen - 1, MinPasswordLen, MinPasswordLen + 1})
NicknameTexts ==
    TextsOf({0, MinNicknameLen - 1, MinNicknameLen, MaxNicknameLen, MaxNicknameLen + 1})

\* user.nickname = t: the assignment runs validate_nickname on t.
AssignNickname(t) ==
    /\ probe' = [validator |-> "nickname", candidate |-> t, value |-> t,
                 result |-> validate_nickname(t)]
    /\ UNCHANGED <<db, nextId, pc, call, pend, ret, pre, flag, gen>>

\* user.hashed_password = t: the assignment runs validate_password on t.
AssignHashedPassword(t) ==
    /\ probe' = [validator |-> "hashed_password", candidate |-> t, value |-> t,
                 result |-> validate_password(t)]
    /\ UNCHANGED <<db, nextId, pc, call, pend, ret, pre, flag, gen>>

\* The service's way to set a password t (create, reset_password):
\* hashed = hash_password(t); user.hashed_password = hashed.
SetPassword(t, salt) ==
    LET hashed == HashText(hash_password(t, salt))
    IN  /\ probe' = [validator |-> "hashed_password", candidate |-> t, value |-> hashed,
                     result |-> validate_password(hashed)]
        /\ UNCHANGED <<db, nextId, pc, call, pend, ret, pre, flag, gen>>

NextValidators ==
    \/ \E t \in NicknameTexts : AssignNickname(t)
    \/ \E t \in PasswordTexts : AssignHashedPassword(t)
    \/ \E t \in PasswordTexts, s \in Salts : SetPassword(t, s)

SpecValidators == Init /\ [][NextValidators]_vars

\* ------------------------------------------------------------ properties
Done(p, op) == pc[p] = "done" /\ call[p].op = op
None(p) == ret[p] = Ret("None", NoId)
\* The account login_user loaded for caller p, in the table as the call found it.
Target(p) == get_by_email(pre[p], call[p].email)
Open(p) ==
    /\ Target(p) # NoId
    /\ pre[p][Target(p)].email_verified
    /\ ~pre[p][Target(p)].is_locked
Verifies(p) == verify_password(call[p].password, pre[p][Target(p)].hashed_password)

\* C1: a login_user call on a verified, unlocked account with a password that
\* does not verify returns no account and, the store committing, leaves the
\* account with failed_login_attempts one higher and with is_locked true exactly
\* when the new count has reached max_login_attempts; from max_login_attempts - 1
\* the account ends locked with failed_login_attempts = max_login_attempts.
C1_WrongPasswordCounts ==
    \A p \in Procs :
        (Done(p, "login") /\ Open(p) /\ ~Verifies(p) /\ ~flag[p].fault) =>
            LET u == Target(p)
                n == pre[p][u].failed_login_attempts + 1
            IN  /\ None(p)
                /\ flag[p].wrote
                /\ u \in DOMAIN db
                /\ db[u].failed_login_attempts = n
                /\ db[u].is_locked = (n >= MaxLoginAttempts)
                /\ (n = MaxLoginAttempts =>
                        db[u].is_locked /\ db[u].failed_login_attempts = MaxLoginAttempts)

C1_Witness ==
    \E p \in Procs :
        /\ Done(p, "login") /\ Open(p) /\ ~Verifies(p) /\ ~flag[p].fault
        /\ pre[p][Target(p)].failed_login_attempts = MaxLoginAttempts - 1
        /\ db[Target(p)].is_locked
        /\ db[Target(p)].failed_login_attempts = MaxLoginAttempts

\* C2: a login_user call on a verified, unlocked account with the correct
\* password returns that account and, the store committing, leaves it with
\* failed_login_attempts = 0, whatever the count was, and with last_login_at
\* the time of the call.
C2_CorrectPasswordResets ==
    \A p \in Procs :
        (Done(p, "login") /\ Open(p) /\ Verifies(p) /\ ~flag[p].fault) =>
            LET u == Target(p)
            IN  /\ ret[p] = Ret("user", u)
                /\ u \in DOMAIN db
                /\ db[u].failed_login_attempts = 0
                /\ db[u].last_login_at = call[p].now

C2_Witness ==
    \E p \in Procs :
        /\ Done(p, "login") /\ Open(p) /\ Verifies(p) /\ ~flag[p].fault
        /\ pre[p][Target(p)].failed_login_attempts > 0
        /\ pre[p][Target(p)].last_login_at # call[p].now
        /\ db[Target(p)].failed_login_attempts = 0
        /\ db[Target(p)].last_login_at = call[p].now

\* C3: a login_user call for an account that is not verified or is locked
\* returns no account whether or not the password verifies, sends no statement
\* to the store and leaves every field of every account as it was.
C3_GatedLoginChangesNothing ==
    \A p \in Procs :
        (Done(p, "login") /\ Target(p) # NoId /\ ~Open(p)) =>
            /\ None(p)
            /\ ~flag[p].wrote
            /\ db = pre[p]

C3_Witness ==
    \E p \in Procs :
        /\ Done(p, "login") /\ Target(p) # NoId
        /\ pre[p][Target(p)].is_locked
        /\ pre[p][Target(p)].failed_login_attempts > 0
        /\ Verifies(p)
        /\ None(p)

\* C4: login_user returns an account only if an account with the email exists,
\* is verified, is not locked and the password verifies against its hash, and
\* then it is that account; the store committing, it returns the account in
\* that case and None in every other; with no account for the email the table
\* is left as it was.
C4_LoginReturnsIff ==
    \A p \in Procs :
        Done(p, "login") =>
            /\ ret[p].kind = "user" => (Open(p) /\ Verifies(p) /\ ret[p].id = Target(p))
            /\ ~flag[p].fault =>
                    IF Open(p) /\ Verifies(p) THEN ret[p].kind = "user" ELSE None(p)
            /\ Target(p) = NoId => (None(p) /\ db = pre[p] /\ ~flag[p].wrote)

C4_Witness ==
    \E p \in Procs :
        /\ Done(p, "login") /\ Open(p) /\ Verifies(p)
        /\ ret[p] = Ret("user", Target(p))
        /\ Cardinality(DOMAIN db) = 2

\* C5: in every state reached by create, update, delete, login_user and
\* reset_password calls no two stored accounts share an email and no two share
\* a nickname.
C5_UniqueEmailAndNickname ==
    \A i \in DOMAIN db : \A j \in DOMAIN db :
        i # j => (db[i].email # db[j].email /\ db[i].nickname # db[j].nickname)

\* An update that would have given an account the nickname of another one was
\* rejected by the store.
C5_Witness ==
    \E p \in Procs :
        /\ Done(p, "update") /\ flag[p].conflict
        /\ call[p].email = Unset /\ call[p].nickname # Unset
        /\ Cardinality(DOMAIN db) = 2
        /\ db = pre[p]

\* C6: when two registrations for the same email, both with valid input and
\* with no collaborator failing, have run one after the other or interleaved
\* at any await, exactly one has returned an account, the other has returned
\* None (neither has raised), and the table holds that one account and nothing
\* else.
Clean(p) == ~flag[p].fault /\ ~flag[p].invalid
C6_OneRegistrationWins ==
    \A p \in Procs : \A q \in Procs :
        (/\ p # q /\ Done(p, "create") /\ Done(q, "create")
         /\ call[p].email = call[q].email
         /\ Clean(p) /\ Clean(q)) =>
            /\ {ret[p].kind, ret[q].kind} = {"user", "None"}
            /\ ret[p].kind = "user" =>
                    /\ DOMAIN db = {ret[p].id}
                    /\ db[ret[p].id].email = call[p].email

\* The loser passed the existence check and lost at the commit.
C6_Witness ==
    \E p \in Procs : \E q \in Procs :
        /\ p # q /\ Done(p, "create") /\ Done(q, "create")
        /\ call[p].email = call[q].email
        /\ Clean(p) /\ Clean(q)
        /\ ret[p].kind = "user"
        /\ flag[q].conflict /\ None(q)
        /\ Cardinality(DOMAIN db) = 1

\* C7 (as claimed): whenever create does not return an account, the stored
\* accounts are the same as before the call.
C7_RegistrationAllOrNothing ==
    \A p \in Procs :
        (Done(p, "create") /\ ret[p].kind # "user") => db = pre[p]

\* C8: a registration that returns an account has dispatched exactly one
\* verification email, for that account, and whenever the dispatch is about to
\* happen the account is already stored with its verification token.
Persisted(id) ==
    /\ id \in DOMAIN db
    /\ db[id].verification_token = generate_verification_token(id)
C8_OneEmailAfterPersist ==
    \A p \in Procs :
        /\ pc[p] = "create_email" =>
                (Persisted(pend[p].id) /\ flag[p].mail = <<>> /\ flag[p].wrote)
        /\ (Done(p, "create") /\ ret[p].kind = "user") =>
                (flag[p].mail = <<ret[p].id>> /\ Persisted(ret[p].id))
        /\ pc[p] \in {"idle", "create_nick", "create_commit"} => flag[p].mail = <<>>

C8_Witness ==
    \E p \in Procs :
        /\ Done(p, "create") /\ ret[p].kind = "user"
        /\ flag[p].mail = <<ret[p].id>>
        /\ ret[p].id \notin DOMAIN pre[p]
        /\ Persisted(ret[p].id)

\* C9 (as claimed): reset_password on an existing account, the store
\* committing, returns true and leaves the account with a hash the new
\* plaintext verifies against, failed_login_attempts = 0 and is_locked false;
\* on an identifier that is not stored it returns false and changes no account.
C9_ResetPassword ==
    \A p \in Procs :
        (Done(p, "reset") /\ ~flag[p].fault) =>
            IF call[p].id \in DOMAIN pre[p]
            THEN /\ ret[p].kind = "True"
                 /\ call[p].id \in DOMAIN db
                 /\ verify_password(call[p].password, db[call[p].id].hashed_password)
                 /\ db[call[p].id].failed_login_attempts = 0
                 /\ ~db[call[p].id].is_locked
            ELSE ret[p].kind = "False" /\ db = pre[p]

\* C10: delete on a stored identifier, the store committing, returns true and
\* leaves the table without that account and otherwise as it was; delete on an
\* identifier that is not stored returns false (it does not raise), sends no
\* statement to the store and changes nothing; and an identifier once deleted
\* is never stored again.
C10_DeleteState ==
    \A p \in Procs :
        (Done(p, "delete") /\ ~flag[p].fault) =>
            IF call[p].id \in DOMAIN pre[p]
            THEN /\ ret[p].kind = "True"
                 /\ call[p].id \notin DOMAIN db
                 /\ db = [i \in DOMAIN pre[p] \ {call[p].id} |-> pre[p][i]]
            ELSE /\ ret[p].kind = "False"
                 /\ ~flag[p].wrote
                 /\ db = pre[p]
Gone(d, n) == {i \in Ids : i < n /\ i \notin DOMAIN d}
C10_Delete ==
    /\ [](C10_DeleteState /\ \A p \in Procs : Done(p, "delete") => ret[p].kind # "raise")
    /\ [][Gone(db, nextId) \subseteq Gone(db', nextId')]_vars

\* A second delete of the same identifier.
C10_Witness ==
    \E p \in Procs :
        /\ Done(p, "delete")
        /\ call[p].id < nextId
        /\ call[p].id \notin DOMAIN pre[p]
        /\ ret[p].kind = "False"

C12_StoredPasswordIsHash ==
    /\ \A i \in DOMAIN db :
          /\ \E pw \in PasswordInputs : db[i].hashed_password \in HashesOf(pw)
          /\ \A pw \in PasswordInputs : db[i].hashed_password # Raw(pw)
    /\ \A p \in Procs :
          /\ (Done(p, "create") /\ ret[p].kind = "user") =>
                 db[ret[p].id].hashed_password \in HashesOf(call[p].password)
          /\ (Done(p, "update") /\ ret[p].kind = "user" /\ call[p].password # Unset) =>
                 db[ret[p].id].hashed_password \in HashesOf(call[p].password)
          /\ (Done(p, "reset") /\ ret[p].kind = "True") =>
                 db[call[p].id].hashed_password \in HashesOf(call[p].password)
          /\ (pend[p].kind # "none" /\ "hashed_password" \in DOMAIN pend[p].vals) =>
                 pend[p].vals.hashed_password \in HashesOf(call[p].password)

\* A reset that replaced the stored hash.
C12_Witness ==
    \E p \in Procs :
        /\ Done(p, "reset") /\ ret[p].kind = "True"
        /\ db[call[p].id].hashed_password # pre[p][call[p].id].hashed_password
        /\ db[call[p].id].hashed_password \in HashesOf(call[p].password)

\* C13: create and update reject an invalid payload (a malformed email, a
\* password that fails the policy, an invalid nickname, an update that sets no
\* field) before anything reaches the store: they return no account, no account
\* is inserted or modified, no statement is committed, no email is dispatched,
\* and no handler is past its validation with an invalid payload.
C13_InvalidInputRejected ==
    \A p \in Procs :
        LET c == call[p]
            bad == \/ c.op = "create" /\ ~UserCreateValid(c.email, c.password)
                   \/ c.op = "update" /\ ~UserUpdateValid(c.email, c.nickname, c.password)
        IN  bad => /\ pc[p] = "done"
                   /\ None(p)
                   /\ db = pre[p]
                   /\ ~flag[p].wrote
                   /\ flag[p].mail = <<>>
                   /\ pend[p] = NoPend

\* An update that sets no field, on a stored account.
C13_Witness ==
    \E p \in Procs :
        /\ Done(p, "update") /\ call[p].id \in DOMAIN pre[p]
        /\ call[p].email = Unset /\ call[p].nickname = Unset /\ call[p].password = Unset
        /\ None(p) /\ db = pre[p]

\* The password policy as the specification words it: the rules in their
\* order, the verdict the first rule that fails.
PolicyRules == <<"length", "uppercase", "lowercase", "digit", "special">>
PolicyRuleHolds(t, r) ==
    CASE r = "length" -> Len(t) >= MinPasswordLen
      [] r = "uppercase" -> \E i \in 1..Len(t) : t[i] = "U"
      [] r = "lowercase" -> \E i \in 1..Len(t) : t[i] = "l"
      [] r = "digit" -> \E i \in 1..Len(t) : t[i] = "d"
      [] OTHER -> \E i \in 1..Len(t) : t[i] = "s"
PolicyVerdict(t) ==
    LET failing == {k \in 1..Len(PolicyRules) : ~PolicyRuleHolds(t, PolicyRules[k])}
    IN  IF failing = {} THEN "ok"
        ELSE PolicyRules[CHOOSE k \in failing : \A j \in failing : k <= j]

\* C14 (as claimed): whenever the password validator runs, its verdict is the
\* policy's verdict on the raw candidate password: success exactly when the
\* candidate has 8 characters or more with an uppercase letter, a lowercase
\* letter, a digit and a special character, else the first failing rule in the
\* order length, uppercase, lowercase, digit, special.
C14_PolicyOnRawPassword ==
    probe.validator = "hashed_password" => probe.result = PolicyVerdict(probe.candidate)

\* The verdict of validate_password is the policy's verdict on the text the
\* validator is handed.
ValidatePasswordFollowsPolicy ==
    probe.validator = "hashed_password" => probe.result = PolicyVerdict(probe.value)

\* C15 (as claimed): nickname validation succeeds exactly for the texts of 3
\* to 50 characters made of A-Z, a-z and 0-9 only, and fails for every other
\* text.
C15_NicknameAsciiAlnum ==
    probe.validator = "nickname" =>
        (probe.result = "ok" <=>
            /\ Len(probe.value) >= MinNicknameLen
            /\ Len(probe.value) <= MaxNicknameLen
            /\ \A i \in 1..Len(probe.value) : probe.value[i] \in {"U", "l", "d"})

\* The accounts whose is_locked goes from false to true in the step.
LockRises == {i \in DOMAIN db \cap DOMAIN db' : ~db[i].is_locked /\ db'[i].is_locked}
\* The step is the commit of a login_user call that found a wrong password on
\* account i and whose incremented count has reached max_login_attempts.
LockoutStep(i) ==
    \E p \in Procs :
        /\ pc[p] = "login_commit" /\ pc'[p] = "done"
        /\ pend[p].id = i /\ pend[p].result = "None"
        /\ ~verify_password(call[p].password, db[i].hashed_password)
        /\ db'[i].failed_login_attempts = db[i].failed_login_attempts + 1
        /\ db'[i].failed_login_attempts >= MaxLoginAttempts

\* C16: every step in which an account's is_locked goes from false to true is
\* either lock_account on that account or the commit of a wrong-password
\* login_user whose incremented count has reached max_login_attempts; an
\* account enters the table unlocked; so create, update, delete, a successful
\* login, reset_password, unlock_account and verify_email never lock.
C16_OnlyLockoutOrLockAccountLocks ==
    [][/\ \A i \in LockRises : LockAccount(i) \/ LockoutStep(i)
       /\ \A i \in DOMAIN db' \ DOMAIN db : ~db'[i].is_locked]_vars

\* An account locked by lock_account while its count is below the threshold.
C16_Witness ==
    \E i \in DOMAIN db :
        /\ db[i].is_locked
        /\ db[i].failed_login_attempts < MaxLoginAttempts
        /\ \E j \in DOMAIN db \ {i} : db[j].is_locked /\ db[j].failed_login_attempts >= MaxLoginAttempts

\* The handler of caller p ended on a commit the store failed.
CommitFailed(p) ==
    /\ pc[p] = "done" /\ flag[p].fault /\ ~flag[p].wrote
    /\ call[p].op \in {"create", "update", "delete", "login", "reset"}

\* C17: a write operation whose commit the store fails leaves the table as it
\* was when the operation began, and leaves nothing of the operation pending in
\* its session for a later commit to write; and every step that changes the
\* table, one commit of one handler, writes the whole unit of work of that
\* handler.
C17_StateRolledBack ==
    \A p \in Procs : CommitFailed(p) => (db = pre[p] /\ pend[p] = NoPend)
InUse(n) == \E i \in DOMAIN db : db[i].nickname = n
InLoop(p) == pc[p] = "create_nick"
\* Every nickname the loop of caller p can be handed is in use.
Starved(p) == InLoop(p) /\ InUse(pend[p].vals.nickname) /\ \A n \in gen : InUse(n)

\* C18: the nickname loop of create leaves only with a candidate that is not
\* in use, and keeps that candidate; with a fair generator that can produce a
\* nickname not in use the loop is left; and when every nickname the generator
\* can produce is in use the loop is never left.
C18_NicknameLoop ==
    /\ [][\A p \in Procs :
             (InLoop(p) /\ ~InLoop(p)') =>
                 /\ ~InUse(pend[p].vals.nickname)
                 /\ pc'[p] = "create_commit" => pend'[p].vals.nickname = pend[p].vals.nickname]_vars
    /\ \A p \in SeqProcs : (InLoop(p) /\ \E n \in gen : ~InUse(n)) ~> ~InLoop(p)
    /\ \A p \in SeqProcs : [](Starved(p) => []InLoop(p))

\* A registration in the loop while the generator's only nickname is in use.
C18_Witness ==
    \E p \in Procs : Starved(p) /\ db # EmptyTable

\* The login_user calls completed on account u with a wrong password, the
\* account verified and unlocked when they loaded it, their commit accepted.
WrongLogins(u) ==
    {p \in Procs : /\ Done(p, "login") /\ Target(p) = u /\ Open(p)
                   /\ ~Verifies(p) /\ ~flag[p].fault /\ None(p)}
SuccessfulLogins(u) ==
    {p \in Procs : Done(p, "login") /\ Target(p) = u /\ ret[p].kind = "user"}

\* C19 (as claimed): under any interleaving of login_user calls on one
\* verified, unlocked account, with no successful login among them, the
\* account's failed_login_attempts equals the number of wrong-password calls
\* completed (no increment is lost), and once that number has reached
\* max_login_attempts the account is locked.
C19_NoLostIncrement ==
    \A u \in DOMAIN db :
        SuccessfulLogins(u) = {} =>
            /\ db[u].failed_login_attempts = Cardinality(WrongLogins(u))
            /\ Cardinality(WrongLogins(u)) >= MaxLoginAttempts => db[u].is_locked

\* C20: with calls one at a time and no lock_account or unlock_account, every
\* stored account has 0 <= failed_login_attempts <= max_login_attempts and is
\* locked exactly when failed_login_attempts = max_login_attempts.
C20_CounterAndLockAgree ==
    \A i \in DOMAIN db :
        /\ 0 <= db[i].failed_login_attempts
        /\ db[i].failed_login_attempts <= MaxLoginAttempts
        /\ db[i].is_locked <=> (db[i].failed_login_attempts = MaxLoginAttempts)

\* A locked account beside one unlocked by reset_password.
C20_Witness ==
    /\ \E i \in DOMAIN db :
          db[i].is_locked /\ db[i].failed_login_attempts = MaxLoginAttempts
    /\ \E p \in Procs :
          /\ Done(p, "reset") /\ ret[p].kind = "True"
          /\ pre[p][call[p].id].is_locked
          /\ ~db[call[p].id].is_locked /\ db[call[p].id].failed_login_attempts = 0

====
